---- MODULE Spec2Model ----
(***************************************************************************)
(* A model of the MySQL plumbing of srcflib (srcflib/plumbing/mysql.py)    *)
(* and of its group scripts (srcflib/scripts/group.py).                    *)
(*                                                                         *)
(* SQL text is a sequence of strings.  Every character that matters to one *)
(* of the three text processors on the way to the server (str.format, the  *)
(* % formatting of the driver, the lexer of the server) is an element of   *)
(* its own: braces, percent, s, the identifier quote, the string quote,    *)
(* and every character of a database name.  A run of other characters (a   *)
(* keyword run such as "GRANT ALL ON ") is kept as one element; no         *)
(* processor looks inside one.  The identifier quote (the backtick) cannot *)
(* be written in a string of this language and is the element BQ.          *)
(***************************************************************************)
EXTENDS Naturals, Sequences, FiniteSets, TLC

\* ------------------------------------------------------------- bounds

\* How many user names the callers draw from.
NumUsers == 2
\* How many distinct values Password.new() can return.
NumPasswords == 2
\* The longest database name of the identifier-embedding specification.
MaxLen == 3
\* How many members the group scripts are run for.
NumMembers == 3

UserPool == <<"alice", "bob", "carol", "dave">>
PasswordPool == <<"pw1", "pw2", "pw3", "pw4">>
UserNames == {UserPool[i] : i \in 1..NumUsers}
Secrets == {PasswordPool[i] : i \in 1..NumPasswords}
CrsidPool == <<"spqr2", "abc12", "xyz99", "jd001", "mm002">>
Crsids == {CrsidPool[i] : i \in 1..NumMembers}

\* The identifier quote character (the backtick).
BQ == "<bq>"

\* The characters of database names: an ordinary one, the conversion type of
\* the parameter marker of the driver, the identifier quote and the marker itself.
Alphabet == {"n", "s", BQ, "%"}
NamesUpTo(k) == UNION {[1..l -> Alphabet] : l \in 1..k}
\* The database names of the account-manager specification.
DbNames == {<<"n", BQ>>, <<"%">>}
\* The patterns list_databases is called with: the default and one name.
LikePatterns == {<<"%">>, <<"n", "%">>}

\* ------------------------------------------------ Result, Password (common)

\* No payload.
None == [kind |-> "None"]

\* Password.new(): a fresh secret, never empty.
NewPasswords == {[kind |-> "Password", secret |-> s] : s \in Secrets}
\* str(passwd)
Str(passwd) == passwd.secret

\* Result(state, value=None)
Result(state, value) == [state |-> state, value |-> value]

\* ----------------------------------------------------------- text helpers

Drop(s, k) == SubSeq(s, k + 1, Len(s))

RECURSIVE Replace(_)
\* lit.replace(BACKTICK, BACKTICK BACKTICK)
Replace(lit) ==
  IF lit = <<>> THEN <<>>
  ELSE (IF Head(lit) = BQ THEN <<BQ, BQ>> ELSE <<Head(lit)>>) \o Replace(Tail(lit))

\* BACKTICK {} BACKTICK .format(the replaced text)
QuoteIdentifier(lit) == <<BQ>> \o Replace(lit) \o <<BQ>>

RECURSIVE StrFormat(_, _)
\* sql.format(*params): each replacement field {} takes the next parameter;
\* the text put in is not scanned again.
StrFormat(sql, params) ==
  IF sql = <<>> THEN <<>>
  ELSE IF Len(sql) >= 2 /\ sql[1] = "{" /\ sql[2] = "}"
       THEN Head(params) \o StrFormat(Drop(sql, 2), Tail(params))
       ELSE <<sql[1]>> \o StrFormat(Tail(sql), params)

\* _format(sql, *literals)
_format(sql, literals) ==
  StrFormat(sql, [i \in 1..Len(literals) |-> QuoteIdentifier(literals[i])])

\* ------------------------------------------------------------- the driver

\* The escaping by the driver of one bound parameter: a quoted string literal.
Literal(v) == <<"'">> \o v \o <<"'">>

RECURSIVE PercentFormat(_, _, _)
\* sql % args, as the driver computes the text it sends: %% is a percent
\* sign, %s takes the next argument; a % before anything else, too few or too
\* many arguments raise.  out is the text formatted so far.
PercentFormat(sql, args, out) ==
  IF sql = <<>>
  THEN IF args = <<>> THEN [err |-> "none", text |-> out]
       ELSE [err |-> "TypeError", text |-> <<>>]
  ELSE IF sql[1] # "%" THEN PercentFormat(Tail(sql), args, Append(out, sql[1]))
  ELSE IF Len(sql) = 1 THEN [err |-> "ValueError", text |-> <<>>]
  ELSE IF sql[2] = "%" THEN PercentFormat(Drop(sql, 2), args, Append(out, "%"))
  ELSE IF sql[2] = "s"
       THEN IF args = <<>> THEN [err |-> "TypeError", text |-> <<>>]
            ELSE PercentFormat(Drop(sql, 2), Tail(args), out \o Head(args))
  ELSE [err |-> "ValueError", text |-> <<>>]

\* ------------------------------------------------------------- the server

RECURSIVE ScanQuoted(_, _, _)
\* The text after an opening quote q, up to the closing one; a doubled quote
\* inside stands for one.
ScanQuoted(q, s, acc) ==
  IF s = <<>> THEN [ok |-> FALSE, v |-> acc, rest |-> <<>>]
  ELSE IF s[1] = q
       THEN IF Len(s) >= 2 /\ s[2] = q
            THEN ScanQuoted(q, Drop(s, 2), Append(acc, q))
            ELSE [ok |-> TRUE, v |-> acc, rest |-> Tail(s)]
       ELSE ScanQuoted(q, Tail(s), Append(acc, s[1]))

RECURSIVE Lex(_, _)
\* The tokens of the server: quoted identifiers, string literals, anything
\* else.  toks are the tokens read so far.
Lex(s, toks) ==
  IF s = <<>> THEN toks
  ELSE IF s[1] \in {BQ, "'"}
       THEN LET r == ScanQuoted(s[1], Tail(s), <<>>)
            IN  IF r.ok
                THEN Lex(r.rest, Append(toks, [t |-> IF s[1] = BQ THEN "id" ELSE "str",
                                               v |-> r.v]))
                ELSE Append(toks, [t |-> "bad", v |-> r.v])
       ELSE Lex(Tail(s), Append(toks, [t |-> "kw", v |-> <<s[1]>>]))

\* The structure of a statement: its keywords, with each identifier and each
\* string literal replaced by a mark.
Skeleton(toks) ==
  [i \in 1..Len(toks) |->
     CASE toks[i].t = "kw" -> toks[i].v[1]
       [] toks[i].t = "id" -> "<id>"
       [] toks[i].t = "str" -> "<str>"
       [] OTHER -> "<bad>"]

IsId(tok) == tok.t = "id"
IsStr(tok) == tok.t = "str"
Identifiers(toks) == SelectSeq(toks, IsId)
Strings(toks) == SelectSeq(toks, IsStr)

RECURSIVE Like(_, _)
\* name LIKE pattern: % stands for any run of characters.
Like(pattern, name) ==
  IF pattern = <<>> THEN name = <<>>
  ELSE IF pattern[1] = "%"
       THEN Like(Tail(pattern), name) \/ (name # <<>> /\ Like(pattern, Tail(name)))
       ELSE name # <<>> /\ name[1] = pattern[1] /\ Like(Tail(pattern), Tail(name))

\* ------------------------------------------------------------------ state

VARIABLES
  users,        \* the server: the names of the users that exist (the secret of
                \* a user is only ever written, and is not kept)
  grants,       \* the server: the <<user name, database name>> privilege rows
  databases,    \* the server: the names of the databases that exist
  sql,          \* the statement text the last call gave to query
  sent,         \* the statement text the driver sent for it (empty: none sent)
  result,       \* the last call: what was asked, whether what it names was
                \* there before it, and what came back
  prev,         \* the call before it, when it had the same arguments
  admin_crsids, \* society.admin_crsids
  society,      \* whether the society account exists
  script,       \* the group script that is running, its member argument, and
                \* society.admin_crsids as it was when the script started
  pc,           \* where the script is
  events        \* what the running script has done so far, in order

dbvars == <<users, grants, databases, sql, sent, result, prev>>
groupvars == <<admin_crsids, society, script, pc, events>>
vars == <<users, grants, databases, sql, sent, result, prev,
          admin_crsids, society, script, pc, events>>

\* ------------------------------------------------------------- statements

Param == <<"%", "s">>
AtAnyHost == <<"@", "'", "%", "%", "'">>
Field == <<"{", "}">>

SqlCreateUser == <<"CREATE USER IF NOT EXISTS ">> \o Param \o AtAnyHost
                   \o <<" IDENTIFIED BY ">> \o Param
SqlSetPassword == <<"SET PASSWORD FOR ">> \o Param \o AtAnyHost \o <<" = ">> \o Param
SqlDropUser == <<"DROP USER IF EXISTS ">> \o Param \o AtAnyHost
SqlGrant == <<"GRANT ALL ON ">> \o Field \o <<".* TO ">> \o Param \o AtAnyHost
SqlRevoke == <<"REVOKE ALL ON ">> \o Field \o <<".* FROM ">> \o Param \o AtAnyHost
SqlCreateDatabase == <<"CREATE DATABASE IF NOT EXISTS ">> \o Field
SqlShowDatabases == <<"SHOW DATABASES LIKE ">> \o Param
SqlDropDatabase == <<"DROP DATABASE IF EXISTS ">> \o Field

\* What the server takes each statement to be, by its structure.
FormCreateUser ==
  <<"CREATE USER IF NOT EXISTS ", "<str>", "@", "<str>", " IDENTIFIED BY ", "<str>">>
FormSetPassword == <<"SET PASSWORD FOR ", "<str>", "@", "<str>", " = ", "<str>">>
FormDropUser == <<"DROP USER IF EXISTS ", "<str>", "@", "<str>">>
FormGrant == <<"GRANT ALL ON ", "<id>", ".* TO ", "<str>", "@", "<str>">>
FormRevoke == <<"REVOKE ALL ON ", "<id>", ".* FROM ", "<str>", "@", "<str>">>
FormCreateDatabase == <<"CREATE DATABASE IF NOT EXISTS ", "<id>">>
FormShowDatabases == <<"SHOW DATABASES LIKE ", "<str>">>
FormDropDatabase == <<"DROP DATABASE IF EXISTS ", "<id>">>

\* The server reads one statement: its structure, and the values in it.
Parse(text) ==
  LET toks == Lex(text, <<>>)
      ids == Identifiers(toks)
      strs == Strings(toks)
  IN  [form |-> Skeleton(toks),
       ids |-> [i \in 1..Len(ids) |-> ids[i].v],
       strs |-> [i \in 1..Len(strs) |-> strs[i].v]]

\* cursor.execute(sql, args) up to the server: the driver escapes the
\* arguments and formats them into the text; the server reads what is sent.
\* When the driver raises, nothing is sent.
Prepare(text, args) ==
  LET m == PercentFormat(text, [i \in 1..Len(args) |-> Literal(args[i])], <<>>)
  IN  [err |-> m.err, sent |-> m.text, stmt |-> Parse(m.text)]

\* The server is modelled as the module takes it to be (the docstring of
\* query, the comments of create_database and drop_database): a statement on
\* a user or a grant reports one affected row exactly when it changed one.
\* A privilege row is kept by user name and database name.

\* What the server answers to a statement that changes nothing: no row
\* affected, the state as it is, no row returned.
Same ==
  [err |-> "none", rowcount |-> 0, users |-> users, grants |-> grants,
   databases |-> databases, rows |-> {}]

\* CREATE USER IF NOT EXISTS name@host IDENTIFIED BY secret: one row for a
\* user that is new, none for one that exists.
ExecCreateUser(name, secret) ==
  IF name \in users THEN Same
  ELSE [Same EXCEPT !.rowcount = 1, !.users = users \cup {name}]

\* SET PASSWORD FOR name@host = secret: one row for a user that exists.
ExecSetPassword(name, secret) ==
  IF name \notin users THEN Same
  ELSE [Same EXCEPT !.rowcount = 1]

\* DROP USER IF EXISTS name@host: the user goes, and all of its grants.
ExecDropUser(name) ==
  IF name \notin users THEN Same
  ELSE [Same EXCEPT !.rowcount = 1, !.users = users \ {name},
                    !.grants = {g \in grants : g[1] # name}]

\* GRANT ALL ON db.* TO name@host: one privilege row, when it is new.
ExecGrant(db, name) ==
  IF <<name, db>> \in grants THEN Same
  ELSE [Same EXCEPT !.rowcount = 1, !.grants = grants \cup {<<name, db>>}]

\* REVOKE ALL ON db.* FROM name@host: the privilege row goes, when there.
ExecRevoke(db, name) ==
  IF <<name, db>> \notin grants THEN Same
  ELSE [Same EXCEPT !.rowcount = 1, !.grants = grants \ {<<name, db>>}]

\* CREATE DATABASE IF NOT EXISTS db: always one row.
ExecCreateDatabase(db) ==
  [Same EXCEPT !.rowcount = 1, !.databases = databases \cup {db}]

\* SHOW DATABASES LIKE pattern: the names that match.
ExecShowDatabases(pattern) ==
  LET found == {d \in databases : Like(pattern, d)}
  IN  [Same EXCEPT !.rowcount = Cardinality(found), !.rows = found]

\* DROP DATABASE IF EXISTS db: always zero rows.
ExecDropDatabase(db) ==
  [Same EXCEPT !.databases = databases \ {db}]

\* The server runs one statement: the rows it reports as affected, the state
\* it leaves, and the rows it returns.  Text of no known structure is a
\* syntax error.
Execute(stmt) ==
  LET form == stmt.form
      ids == stmt.ids
      strs == stmt.strs
  IN  CASE form = FormCreateUser -> ExecCreateUser(strs[1][1], strs[3][1])
        [] form = FormSetPassword -> ExecSetPassword(strs[1][1], strs[3][1])
        [] form = FormDropUser -> ExecDropUser(strs[1][1])
        [] form = FormGrant -> ExecGrant(ids[1], strs[1][1])
        [] form = FormRevoke -> ExecRevoke(ids[1], strs[1][1])
        [] form = FormCreateDatabase -> ExecCreateDatabase(ids[1])
        [] form = FormShowDatabases -> ExecShowDatabases(strs[1])
        [] form = FormDropDatabase -> ExecDropDatabase(ids[1])
        [] OTHER -> [Same EXCEPT !.err = "ProgrammingError"]

\* query(cursor, sql, *args): whether rows were affected.  What the driver or
\* the server raises is not caught.
query(text, args) ==
  LET p == Prepare(text, args)
      e == Execute(p.stmt)
  IN  IF p.err # "none"
      THEN [err |-> p.err, sent |-> <<>>, affected |-> FALSE, users |-> users,
            grants |-> grants, databases |-> databases, rows |-> {}]
      ELSE [err |-> e.err, sent |-> p.sent, affected |-> e.rowcount # 0,
            users |-> e.users, grants |-> e.grants, databases |-> e.databases,
            rows |-> e.rows]

\* _truthy with the test ignored.
_truthy_always(test) == Result("success", None)

\* _truthy(test)
_truthy(test) == IF test THEN Result("success", None) ELSE Result("unchanged", None)

\* ------------------------------------------------------------- the calls

NoName == "-"
NoDb == <<>>
Raise(kind) == [raised |-> kind, state |-> "none", value |-> None]
Return(r) == [raised |-> "none", state |-> r.state, value |-> r.value]

NoPrev == [op |-> "none", raised |-> "none", state |-> "none"]

\* One call of the account manager: the server is left as query left it, and
\* the call and its outcome are recorded.
Call(op, user, db, held, generated, text, q, out, rows) ==
  /\ users' = q.users
  /\ grants' = q.grants
  /\ databases' = q.databases
  /\ sql' = text
  /\ sent' = q.sent
  /\ result' = [op |-> op, user |-> user, db |-> db, held |-> held,
                generated |-> generated,
                raised |-> out.raised, state |-> out.state, value |-> out.value,
                rows |-> rows]
  /\ prev' = IF result.user = user /\ result.db = db
             THEN [op |-> result.op, raised |-> result.raised, state |-> result.state]
             ELSE NoPrev
  /\ UNCHANGED groupvars

\* What a call returns once query has answered, or raises when query raised.
Answer(q, r) == IF q.err # "none" THEN Raise(q.err) ELSE r

\* create_user returning the password whether or not the user is new.
create_user_always(name) ==
  \E passwd \in NewPasswords :
    \E q \in {query(SqlCreateUser, <<<<name>>, <<Str(passwd)>>>>)} :
      Call("create_user", name, NoDb, name \in users, passwd, SqlCreateUser, q,
           Answer(q, Return(Result("success", passwd))), {})

\* create_user handing the generated password back with an unchanged Result.
create_user_payload(name) ==
  \E passwd \in NewPasswords :
    \E q \in {query(SqlCreateUser, <<<<name>>, <<Str(passwd)>>>>)} :
      Call("create_user", name, NoDb, name \in users, passwd, SqlCreateUser, q,
           Answer(q, Return(Result(IF q.affected THEN "success" ELSE "unchanged",
                                   passwd))), {})

create_user(name) ==
  \E passwd \in NewPasswords :
    \E q \in {query(SqlCreateUser, <<<<name>>, <<Str(passwd)>>>>)} :
      LET new == q.affected IN
        Call("create_user", name, NoDb, name \in users, passwd, SqlCreateUser, q,
             Answer(q, IF new THEN Return(Result("success", passwd))
                       ELSE Return(Result("unchanged", None))), {})

\* reset_password reporting a missing user as unchanged.
reset_password_unchanged(name) ==
  \E passwd \in NewPasswords :
    \E q \in {query(SqlSetPassword, <<<<name>>, <<Str(passwd)>>>>)} :
      Call("reset_password", name, NoDb, name \in users, passwd, SqlSetPassword, q,
           Answer(q, IF q.affected THEN Return(Result("success", passwd))
                     ELSE Return(Result("unchanged", None))), {})

reset_password(name) ==
  \E passwd \in NewPasswords :
    \E q \in {query(SqlSetPassword, <<<<name>>, <<Str(passwd)>>>>)} :
      LET reset == q.affected IN
        Call("reset_password", name, NoDb, name \in users, passwd, SqlSetPassword, q,
             Answer(q, IF reset THEN Return(Result("success", passwd))
                       ELSE Raise("LookupError")), {})

drop_user(name) ==
  \E q \in {query(SqlDropUser, <<<<name>>>>)} :
      Call("drop_user", name, NoDb, name \in users, None, SqlDropUser, q,
           Answer(q, Return(_truthy(q.affected))), {})

grant_database(user, db) ==
  \E text \in {_format(SqlGrant, <<db>>)} : \E q \in {query(text, <<<<user>>>>)} :
    Call("grant_database", user, db, <<user, db>> \in grants, None, text, q,
           Answer(q, Return(_truthy(q.affected))), {})

revoke_database(user, db) ==
  \E text \in {_format(SqlRevoke, <<db>>)} : \E q \in {query(text, <<<<user>>>>)} :
    Call("revoke_database", user, db, <<user, db>> \in grants, None, text, q,
           Answer(q, Return(_truthy(q.affected))), {})

\* create_database with a GRANT in place of its statement.
create_database_granting(name) ==
  \E user \in UserNames :
    \E text \in {_format(SqlGrant, <<name>>)} : \E q \in {query(text, <<<<user>>>>)} :
      Call("create_database", NoName, name, name \in databases, None, text, q,
           Answer(q, Return(Result("success", None))), {})

create_database(name) ==
  \E text \in {_format(SqlCreateDatabase, <<name>>)} : \E q \in {query(text, <<>>)} :
    Call("create_database", NoName, name, name \in databases, None, text, q,
           Answer(q, Return(Result("success", None))), {})

list_databases(like) ==
  \E q \in {query(SqlShowDatabases, <<like>>)} :
      Call("list_databases", NoName, like, FALSE, None, SqlShowDatabases, q,
           Answer(q, [raised |-> "none", state |-> "none", value |-> None]), q.rows)

drop_database(name) ==
  \E text \in {_format(SqlDropDatabase, <<name>>)} : \E q \in {query(text, <<>>)} :
    Call("drop_database", NoName, name, name \in databases, None, text, q,
           Answer(q, Return(Result("success", None))), {})

NoCall == [op |-> "none", user |-> NoName, db |-> NoDb, held |-> FALSE, generated |-> None,
           raised |-> "none", state |-> "none", value |-> None, rows |-> {}]

Idle == [name |-> "none", member |-> NoName, admins |-> {}]

Init ==
  /\ users = {}
  /\ grants = {}
  /\ databases = {}
  /\ sql = <<>>
  /\ sent = <<>>
  /\ result = NoCall
  /\ prev = NoPrev
  /\ admin_crsids = {}
  /\ society = TRUE
  /\ script = Idle
  /\ pc = "idle"
  /\ events = <<>>

\* The account manager, called in any order by its callers.
Next ==
  \/ \E name \in UserNames : create_user(name)
  \/ \E name \in UserNames : reset_password(name)
  \/ \E name \in UserNames : drop_user(name)
  \/ \E user \in UserNames, db \in DbNames : grant_database(user, db)
  \/ \E user \in UserNames, db \in DbNames : revoke_database(user, db)
  \/ \E name \in DbNames : create_database(name)
  \/ \E like \in LikePatterns : list_databases(like)
  \/ \E name \in DbNames : drop_database(name)

Spec == Init /\ [][Next]_vars

\* Identifier embedding: one call on a fresh server, for every database name
\* of up to MaxLen characters.
Fresh == result.op = "none"

NextEmbed ==
  \/ \E user \in UserNames, db \in NamesUpTo(MaxLen) : Fresh /\ grant_database(user, db)
  \/ \E user \in UserNames, db \in NamesUpTo(MaxLen) : Fresh /\ revoke_database(user, db)
  \/ \E name \in NamesUpTo(MaxLen) : Fresh /\ create_database(name)
  \/ \E name \in NamesUpTo(MaxLen) : Fresh /\ drop_database(name)

SpecEmbed == Init /\ [][NextEmbed]_vars

\* ------------------------------------------------------- the group scripts

WarnAlreadyAdmin == "Warning: already an admin"
WarnNotAdmin == "Warning: not an admin"
WarnOnlyAdmin == "Warning: removing the only remaining admin"
Warnings == {WarnAlreadyAdmin, WarnNotAdmin, WarnOnlyAdmin}
Mutations == {"add_society_admin", "remove_society_admin", "delete_society"}

\* error(message): prints the warning; the script goes on.
error(message) == events' = Append(events, message)

\* confirm(prompt): the operator answers; on no the process is aborted.
confirm ==
  \E yes \in BOOLEAN :
    /\ events' = Append(events, IF yes THEN "confirm: yes" ELSE "confirm: no")
    /\ pc' = IF yes THEN "mutate" ELSE "aborted"

\* membership.add_society_admin(sess, member, society)
add_society_admin(member) ==
  /\ admin_crsids' = admin_crsids \cup {member}
  /\ society' = society
  /\ events' = Append(events, "add_society_admin")

\* membership.remove_society_admin(sess, member, society)
remove_society_admin(member) ==
  /\ admin_crsids' = admin_crsids \ {member}
  /\ society' = society
  /\ events' = Append(events, "remove_society_admin")

\* membership.delete_society(sess, society)
delete_society ==
  /\ admin_crsids' = {}
  /\ society' = FALSE
  /\ events' = Append(events, "delete_society")

\* The entry point: the operator starts a script once no other is running,
\* and the arguments are resolved to a member and the society.
entrypoint(name, member) ==
  /\ pc \in {"idle", "done", "aborted"}
  /\ society
  /\ script' = [name |-> name, member |-> member, admins |-> admin_crsids]
  /\ pc' = "start"
  /\ events' = <<>>
  /\ UNCHANGED <<admin_crsids, society>>
  /\ UNCHANGED dbvars

\* The warning grant prints, if any.
GrantWarning(crsid, admins) ==
  IF crsid \in admins THEN WarnAlreadyAdmin ELSE "none"

\* revoke without its first test.
RevokeWarningOnlyAdmin(crsid, admins) ==
  IF admins = {crsid} THEN WarnOnlyAdmin ELSE "none"

\* The warning revoke prints, if any.
RevokeWarning(crsid, admins) ==
  IF crsid \notin admins THEN WarnNotAdmin
  ELSE IF admins = {crsid} THEN WarnOnlyAdmin
  ELSE "none"

Warn(warning) ==
  IF warning = "none" THEN events' = events ELSE error(warning)

\* grant with the mutation ahead of the confirmation.
grant_unconfirmed ==
  /\ script.name = "grant"
  /\ UNCHANGED <<script, dbvars>>
  /\ \/ /\ pc = "start"
        /\ add_society_admin(script.member)
        /\ pc' = "confirm"
     \/ /\ pc = "confirm"
        /\ confirm
        /\ UNCHANGED <<admin_crsids, society>>
     \/ /\ pc = "mutate"
        /\ Warn(GrantWarning(script.member, admin_crsids))
        /\ pc' = "done"
        /\ UNCHANGED <<admin_crsids, society>>

grant ==
  /\ script.name = "grant"
  /\ UNCHANGED <<script, dbvars>>
  /\ \/ /\ pc = "start"
        /\ Warn(GrantWarning(script.member, admin_crsids))
        /\ pc' = "confirm"
        /\ UNCHANGED <<admin_crsids, society>>
     \/ /\ pc = "confirm"
        /\ confirm
        /\ UNCHANGED <<admin_crsids, society>>
     \/ /\ pc = "mutate"
        /\ add_society_admin(script.member)
        /\ pc' = "done"

revoke ==
  /\ script.name = "revoke"
  /\ UNCHANGED <<script, dbvars>>
  /\ \/ /\ pc = "start"
        /\ Warn(RevokeWarning(script.member, admin_crsids))
        /\ pc' = "confirm"
        /\ UNCHANGED <<admin_crsids, society>>
     \/ /\ pc = "confirm"
        /\ confirm
        /\ UNCHANGED <<admin_crsids, society>>
     \/ /\ pc = "mutate"
        /\ remove_society_admin(script.member)
        /\ pc' = "done"

delete ==
  /\ script.name = "delete"
  /\ UNCHANGED <<script, dbvars>>
  /\ \/ /\ pc = "start"
        /\ events' = events
        /\ pc' = "confirm"
        /\ UNCHANGED <<admin_crsids, society>>
     \/ /\ pc = "confirm"
        /\ confirm
        /\ UNCHANGED <<admin_crsids, society>>
     \/ /\ pc = "mutate"
        /\ delete_society
        /\ pc' = "done"

\* The society is found with any set of admins.
InitGroup ==
  /\ users = {}
  /\ grants = {}
  /\ databases = {}
  /\ sql = <<>>
  /\ sent = <<>>
  /\ result = NoCall
  /\ prev = NoPrev
  /\ admin_crsids \in SUBSET Crsids
  /\ society = TRUE
  /\ script = Idle
  /\ pc = "idle"
  /\ events = <<>>

NextGroup ==
  \/ \E member \in Crsids : entrypoint("grant", member)
  \/ \E member \in Crsids : entrypoint("revoke", member)
  \/ entrypoint("delete", NoName)
  \/ grant
  \/ revoke
  \/ delete

SpecGroup == InitGroup /\ [][NextGroup]_vars

\* ------------------------------------------------------------------ claims

IdentifierOps ==
  {"grant_database", "revoke_database", "create_database", "drop_database"}

\* C1: create_user on a name that is not present returns success with the
\* non-empty password it generated and the user is then present; on a name
\* that is present, and so on the call right after a create_user of the same
\* name, it returns unchanged with no payload.
C1_CreateUser ==
  result.op = "create_user" =>
    /\ result.raised = "none"
    /\ ~result.held =>
         /\ result.state = "success"
         /\ result.value = result.generated
         /\ result.value \in NewPasswords
         /\ Str(result.value) # ""
         /\ result.user \in users
    /\ result.held => result.state = "unchanged" /\ result.value = None
    /\ prev.op = "create_user" => result.state = "unchanged" /\ result.value = None

\* C1 witness: create_user succeeded and the same call right after it
\* returned unchanged.
C1_Witness ==
  /\ result.op = "create_user" /\ result.state = "unchanged" /\ result.value = None
  /\ prev.op = "create_user" /\ prev.state = "success"

\* C2: a reset_password step on a name with no user raises LookupError,
\* returns no Result and leaves the users as they were; on an existing user
\* it returns success with the password it generated.
C2_ResetPassword ==
  [][\A name \in UserNames :
       (result'.op = "reset_password" /\ result'.user = name) =>
         IF name \in users
         THEN /\ result'.raised = "none"
              /\ result'.state = "success"
              /\ result'.value = result'.generated
              /\ result'.value \in NewPasswords
         ELSE /\ result'.raised = "LookupError"
              /\ result'.state = "none"
              /\ result'.value = None
              /\ users' = users]_vars

\* C2 witness: reset_password was called for a name with no user.
C2_Witness ==
  /\ result.op = "reset_password" /\ ~result.held
  /\ result.raised = "LookupError"

\* C3: drop_user returns success when the user was present and unchanged,
\* without raising, when it was absent; the call right after a drop_user of
\* the same name returns unchanged.
C3_DropUser ==
  result.op = "drop_user" =>
    /\ result.raised = "none"
    /\ result.value = None
    /\ result.state = IF result.held THEN "success" ELSE "unchanged"
    /\ prev.op = "drop_user" => result.state = "unchanged"
    /\ result.user \notin users

\* C3 witness: drop_user twice in a row on a user that existed.
C3_Witness ==
  /\ result.op = "drop_user" /\ result.state = "unchanged"
  /\ prev.op = "drop_user" /\ prev.state = "success"

\* C4: grant_database returns success exactly when the pair had no privilege
\* row and unchanged otherwise, revoke_database returns success exactly when
\* it had one; so a revoke right after a grant returns success and a revoke
\* right after a revoke returns unchanged.  Neither raises.
C4_GrantRevoke ==
  /\ result.op = "grant_database" =>
       /\ result.raised = "none"
       /\ result.state = IF result.held THEN "unchanged" ELSE "success"
  /\ result.op = "revoke_database" =>
       /\ result.raised = "none"
       /\ result.state = IF result.held THEN "success" ELSE "unchanged"
       /\ prev.op = "grant_database" => result.state = "success"
       /\ prev.op = "revoke_database" => result.state = "unchanged"

\* C4 for the database names with no percent sign in them.
C4_OtherNames == "%" \in {result.db[i] : i \in DOMAIN result.db} \/ C4_GrantRevoke

\* C5: create_database and drop_database return success, for every database
\* name and whether or not the database existed.
C5_DatabaseSuccess ==
  result.op \in {"create_database", "drop_database"} =>
    result.raised = "none" /\ result.state = "success"

\* C5 for the database names with no percent sign in them.
C5_OtherNames == "%" \in {result.db[i] : i \in DOMAIN result.db} \/ C5_DatabaseSuccess

\* The statement text of the last call, before the name is put in.
Template ==
  CASE result.op = "grant_database" -> SqlGrant
    [] result.op = "revoke_database" -> SqlRevoke
    [] result.op = "create_database" -> SqlCreateDatabase
    [] OTHER -> SqlDropDatabase

\* The statement of the last call as built for the plain name n, and as sent.
PlainBuilt == _format(Template, <<(<<"n">>)>>)
PlainStatement ==
  Prepare(PlainBuilt, IF result.user = NoName THEN <<>> ELSE <<<<result.user>>>>)

\* C6: the statement built for a database name holds the name as its one
\* quoted identifier, which reads back as the name; and the statement sent
\* to the server has the structure of the statement for a plain name (the
\* same keywords, the same number of string literals), with the name as its
\* one identifier.
C6_InjectionFree ==
  result.op \in IdentifierOps =>
    /\ Parse(sql).ids = <<result.db>>
    /\ Parse(sql).form = Parse(PlainBuilt).form
    /\ result.raised = "none"
    /\ sent # <<>>
    /\ Parse(sent).form = PlainStatement.stmt.form
    /\ Len(Parse(sent).strs) = Len(PlainStatement.stmt.strs)
    /\ Parse(sent).ids = <<result.db>>

\* C6 for the statement as built, before the driver formats it.
C6_Built ==
  result.op \in IdentifierOps =>
    /\ Parse(sql).ids = <<result.db>>
    /\ Parse(sql).form = Parse(PlainBuilt).form

\* C6 for the database names with no percent sign in them.
C6_OtherNames == "%" \in {result.db[i] : i \in DOMAIN result.db} \/ C6_InjectionFree

\* How many of the events are in the set.
Count(set) == Cardinality({i \in DOMAIN events : events[i] \in set})
Accepted == Count({"confirm: yes"}) = 1
MutationOf(name) ==
  CASE name = "grant" -> "add_society_admin"
    [] name = "revoke" -> "remove_society_admin"
    [] OTHER -> "delete_society"

\* C7: a script invokes its own mutation at most once and only as the event
\* right after an accepted confirmation; once the script has ended the
\* mutation has been invoked exactly when the operator accepted; until then
\* the admins and the society are as the script found them, and an aborted
\* script has mutated nothing.  An accepted confirmation is followed by the
\* mutation whatever was warned.
C7_MutationIffConfirmed ==
  script.name # "none" =>
    /\ Count(Mutations) <= 1
    /\ \A i \in DOMAIN events :
         events[i] \in Mutations =>
           /\ events[i] = MutationOf(script.name)
           /\ i > 1 /\ events[i - 1] = "confirm: yes"
    /\ pc \in {"done", "aborted"} => (Count(Mutations) = 1 <=> Accepted)
    /\ pc = "aborted" <=> Count({"confirm: no"}) = 1
    /\ pc = "aborted" => Count(Mutations) = 0
    /\ pc # "done" => admin_crsids = script.admins /\ society
    /\ Accepted => pc \in {"mutate", "done"}
    /\ pc = "done" <=> Count(Mutations) = 1
    /\ pc = "mutate" => Accepted /\ ENABLED (grant \/ revoke \/ delete)
    /\ (pc = "done" /\ script.name = "grant") =>
         admin_crsids = script.admins \cup {script.member}
    /\ (pc = "done" /\ script.name = "revoke") =>
         admin_crsids = script.admins \ {script.member}
    /\ (pc = "done" /\ script.name = "delete") => ~society

\* C7 witness: grant warned that the member is an admin already, the
\* operator accepted, and the mutation was invoked.
C7_Witness ==
  /\ script.name = "grant" /\ pc = "done"
  /\ events = <<WarnAlreadyAdmin, "confirm: yes", "add_society_admin">>

\* C8: an unchanged Result carries no payload; a payload is carried only by
\* a success Result of create_user or reset_password and is the password
\* generated by that call; create_user on a user that existed returns none.
C8_Payload ==
  /\ result.state = "unchanged" => result.value = None
  /\ result.value # None =>
       /\ result.op \in {"create_user", "reset_password"}
       /\ result.state = "success"
       /\ result.value = result.generated
  /\ result.op \in {"drop_user", "grant_database", "revoke_database",
                    "create_database", "drop_database"} => result.value = None
  /\ (result.op = "create_user" /\ result.held) => result.value = None

\* C8 witness: create_user generated a password for a user that existed and
\* returned unchanged without it.
C8_Witness ==
  /\ result.op = "create_user" /\ result.held
  /\ result.generated \in NewPasswords
  /\ result.state = "unchanged" /\ result.value = None

\* C9: a create_database step leaves the users and the grants as they were;
\* a list_databases step leaves users, grants and databases as they were.
C9_Frame ==
  [][/\ result'.op = "create_database" => users' = users /\ grants' = grants
     /\ result'.op = "list_databases" =>
          users' = users /\ grants' = grants /\ databases' = databases]_vars

\* C9 witness: create_database returned for a database that existed, on a
\* server with users and grants.
C9_Witness ==
  /\ result.op = "create_database" /\ result.held /\ result.state = "success"
  /\ grants # {} /\ users # {}

WarningsPrinted == SelectSeq(events, LAMBDA e : e \in Warnings)

\* C10: once a script is past its test, it has printed at most one warning,
\* as its first event and so ahead of the confirmation: grant the already an
\* admin warning exactly when the member was in the admins, revoke the not
\* an admin warning exactly when the member was not, the only admin warning
\* exactly when the admins were the member alone, delete none.  After the
\* test the script is at the confirmation, warning or not.
C10_Warnings ==
  /\ pc = "start" => events = <<>>
  /\ (script.name # "none" /\ pc # "start") =>
       /\ Len(WarningsPrinted) <= 1
       /\ \A i \in DOMAIN events : events[i] \in Warnings => i = 1
       /\ script.name = "grant" =>
            /\ WarningsPrinted = <<WarnAlreadyAdmin>> <=> script.member \in script.admins
            /\ WarningsPrinted = <<>> <=> script.member \notin script.admins
       /\ script.name = "revoke" =>
            /\ WarningsPrinted = <<WarnNotAdmin>> <=> script.member \notin script.admins
            /\ WarningsPrinted = <<WarnOnlyAdmin>> <=> script.admins = {script.member}
            /\ WarningsPrinted = <<>> <=>
                 (script.member \in script.admins /\ script.admins # {script.member})
       /\ script.name = "delete" => WarningsPrinted = <<>>
       /\ Count({"confirm: yes", "confirm: no"}) = 0 => pc = "confirm"
       /\ pc = "aborted" => events[Len(events)] = "confirm: no"

\* C10 witness: revoke warned about the only remaining admin and went on to
\* the confirmation and the mutation.
C10_Witness ==
  /\ script.name = "revoke" /\ pc = "done"
  /\ events = <<WarnOnlyAdmin, "confirm: yes", "remove_society_admin">>

====
